---------------------------- MODULE Spec2Model ----------------------------
(***************************************************************************)
(* Model of pyvisa-sim's component.py: the Property class (typed,          *)
(* constrained value) and the Component class (dialogue, getter and setter *)
(* tables and their matching functions).                                   *)
(*                                                                         *)
(* Text is a sequence of one-character strings, bytes a sequence of byte   *)
(* symbols.  Python objects are records [k, n, s]: an int, a float (n      *)
(* counts tenths), the float NaN, or a str.                                *)
(***************************************************************************)
EXTENDS Integers, Sequences, FiniteSets, TLC

(***************************************************************************)
(* Python values                                                           *)
(***************************************************************************)
IntV(i) == [k |-> "int", n |-> i, s |-> <<>>]
FloatV(t) == [k |-> "float", n |-> t, s |-> <<>>]
NaN == [k |-> "nan", n |-> 0, s |-> <<>>]
StrV(t) == [k |-> "str", n |-> 0, s |-> t]

\* type(value): the runtime type of a Python object
TypeOf(v) == IF v.k = "nan" THEN "float" ELSE v.k

\* a value or a raised exception
Ok(v) == [ok |-> TRUE, v |-> v, exc |-> ""]
Raise(e) == [ok |-> FALSE, v |-> IntV(0), exc |-> e]

Digits == <<"0", "1", "2", "3", "4", "5", "6", "7", "8", "9">>
IsDigit(c) == \E i \in 1..10 : Digits[i] = c
DigitVal(c) == (CHOOSE i \in 1..10 : Digits[i] = c) - 1
AllDigits(t) == \A i \in 1..Len(t) : IsDigit(t[i])

RECURSIVE DigitsVal(_)
DigitsVal(t) ==
    IF t = <<>> THEN 0
    ELSE 10 * DigitsVal(SubSeq(t, 1, Len(t) - 1)) + DigitVal(t[Len(t)])

RECURSIVE NatText(_)
NatText(i) ==
    IF i < 10 THEN <<Digits[i + 1]>>
    ELSE NatText(i \div 10) \o <<Digits[(i % 10) + 1]>>

Abs(i) == IF i < 0 THEN -i ELSE i

\* str.strip() as int() and float() apply it to their argument
RECURSIVE Strip(_)
Strip(t) ==
    IF t # <<>> /\ t[1] = " " THEN Strip(Tail(t))
    ELSE IF t # <<>> /\ t[Len(t)] = " " THEN Strip(SubSeq(t, 1, Len(t) - 1))
    ELSE t

HasSign(t) == t # <<>> /\ t[1] \in {"-", "+"}
Unsigned(t) == IF HasSign(t) THEN Tail(t) ELSE t
SignOf(t) == IF t # <<>> /\ t[1] = "-" THEN -1 ELSE 1

\* position of the first "." of t, or 0
DotPos(t) ==
    IF \E i \in 1..Len(t) : t[i] = "."
    THEN CHOOSE i \in 1..Len(t) : t[i] = "." /\ \A j \in 1..(i - 1) : t[j] # "."
    ELSE 0

IntPart(t) == IF DotPos(t) = 0 THEN t ELSE SubSeq(t, 1, DotPos(t) - 1)
FracPart(t) == IF DotPos(t) = 0 THEN <<>> ELSE SubSeq(t, DotPos(t) + 1, Len(t))

\* an integer literal: optional sign, one or more digits
IsIntLit(t) == Unsigned(t) # <<>> /\ AllDigits(Unsigned(t))
\* a decimal literal: optional sign, digits with at most one ".", one digit at least
IsUDecLit(u) ==
    /\ \A i \in 1..Len(u) : IsDigit(u[i]) \/ i = DotPos(u)
    /\ Len(u) > (IF DotPos(u) = 0 THEN 0 ELSE 1)
IsDecLit(t) == IsUDecLit(Unsigned(t))
IsNanLit(t) == Unsigned(t) = <<"n", "a", "n">>

\* tenths of a decimal literal (the texts of this model carry one
\* fractional digit at most)
UDecTenths(ip, fp) == 10 * DigitsVal(ip) + (IF fp = <<>> THEN 0 ELSE DigitVal(fp[1]))
DecTenths(t) == SignOf(t) * UDecTenths(IntPart(Unsigned(t)), FracPart(Unsigned(t)))

\* int(t) and float(t) of a stripped text
IntOfText(t) ==
    IF IsIntLit(t) THEN Ok(IntV(SignOf(t) * DigitsVal(Unsigned(t))))
    ELSE Raise("ValueError")
FloatOfText(t) ==
    IF IsNanLit(t) THEN Ok(NaN)
    ELSE IF IsDecLit(t) THEN Ok(FloatV(DecTenths(t)))
    ELSE Raise("ValueError")

\* int(x)
PyInt(x) ==
    CASE x.k = "int" -> Ok(x)
      [] x.k = "float" -> Ok(IntV(IF x.n < 0 THEN -(Abs(x.n) \div 10) ELSE x.n \div 10))
      [] x.k = "nan" -> Raise("ValueError")
      [] OTHER -> IntOfText(Strip(x.s))

\* float(x)
PyFloat(x) ==
    CASE x.k = "int" -> Ok(FloatV(10 * x.n))
      [] x.k = "float" -> Ok(x)
      [] x.k = "nan" -> Ok(x)
      [] OTHER -> FloatOfText(Strip(x.s))

\* the text of a float with d digits after the point (d = 1: repr)
FloatText(t, d) ==
    (IF t < 0 THEN <<"-">> ELSE <<>>) \o NatText(Abs(t) \div 10) \o <<".">>
        \o <<Digits[(Abs(t) % 10) + 1]>> \o [i \in 1..(d - 1) |-> "0"]

IntText(i) == (IF i < 0 THEN <<"-">> ELSE <<>>) \o NatText(Abs(i))

\* str(x)
PyStr(x) ==
    CASE x.k = "int" -> Ok(StrV(IntText(x.n)))
      [] x.k = "float" -> Ok(StrV(FloatText(x.n, 1)))
      [] x.k = "nan" -> Ok(StrV(<<"n", "a", "n">>))
      [] OTHER -> Ok(x)

IsNum(v) == v.k \in {"int", "float"}
Scaled(v) == IF v.k = "int" THEN 10 * v.n ELSE v.n

\* a == b
PyEq(a, b) ==
    CASE IsNum(a) /\ IsNum(b) -> Scaled(a) = Scaled(b)
      [] a.k = "str" /\ b.k = "str" -> a.s = b.s
      [] OTHER -> FALSE

CharOrder == <<" ", "+", "-", ".", "0", "1", "2", "3", "4", "5", "6", "7", "8", "9",
               "?", "A", "C", "F", "O", "S", "a", "b", "c", "n">>
Ord(c) == CHOOSE i \in 1..Len(CharOrder) : CharOrder[i] = c

RECURSIVE TextLt(_, _)
TextLt(a, b) ==
    IF b = <<>> THEN FALSE
    ELSE IF a = <<>> THEN TRUE
    ELSE IF a[1] = b[1] THEN TextLt(Tail(a), Tail(b))
    ELSE Ord(a[1]) < Ord(b[1])

\* a < b (operands of one type, as after coercion; NaN compares False)
PyLt(a, b) ==
    CASE IsNum(a) /\ IsNum(b) -> Scaled(a) < Scaled(b)
      [] a.k = "str" /\ b.k = "str" -> TextLt(a.s, b.s)
      [] OTHER -> FALSE

\* a > b
PyGt(a, b) == PyLt(b, a)

\* x in S, for a set or the keys of a dict
PyIn(x, S) == \E e \in S : PyEq(e, x)


(***************************************************************************)
(* Property                                                                *)
(*                                                                         *)
(* specs is a record: type ("" when the dictionary has no 'type' key),     *)
(* hasMin/min, hasMax/max, and valid: validKind is "none", "list" (valid   *)
(* holds the entries) or "dict" (vmap holds the [key, disp] items).        *)
(***************************************************************************)

\* prop_type(x): the constructor named by the type, or a call of a str
\* object when the type string names none of float, int, str
Coerce(type, x) ==
    CASE type = "float" -> PyFloat(x)
      [] type = "int" -> PyInt(x)
      [] type = "str" -> PyStr(x)
      [] OTHER -> Raise("TypeError")

DictKeys(vmap) == {it.key : it \in vmap}
\* d[x]: the item whose key equals x
DictGet(vmap, x) ==
    IF PyIn(x, DictKeys(vmap))
    THEN Ok((CHOOSE it \in vmap : PyEq(it.key, x)).disp)
    ELSE Raise("KeyError")

PropOk(p) == [ok |-> TRUE, exc |-> "", p |-> p]
PropRaise(e, p) == [ok |-> FALSE, exc |-> e, p |-> p]

\* mutant: a value equal to min is rejected
check_value_strict(specs, value_parsed) ==
    IF ~value_parsed.ok THEN value_parsed
    ELSE IF specs.hasMin
            /\ (PyLt(value_parsed.v, specs.min) \/ PyEq(value_parsed.v, specs.min))
        THEN Raise("ValueError")
    ELSE IF specs.hasMax /\ PyGt(value_parsed.v, specs.max) THEN Raise("ValueError")
    ELSE IF specs.validKind = "dict" /\ ~PyIn(value_parsed.v, DictKeys(specs.vmap))
        THEN Raise("ValueError")
    ELSE IF specs.validKind = "list" /\ ~PyIn(value_parsed.v, specs.valid)
        THEN Raise("ValueError")
    ELSE value_parsed
\* the checks of Property.validate_value on the coerced value (or on the
\* exception the coercion raised)
check_value(specs, value_parsed) ==
    IF ~value_parsed.ok THEN value_parsed
    ELSE IF specs.hasMin /\ PyLt(value_parsed.v, specs.min) THEN Raise("ValueError")
    ELSE IF specs.hasMax /\ PyGt(value_parsed.v, specs.max) THEN Raise("ValueError")
    ELSE IF specs.validKind = "dict" /\ ~PyIn(value_parsed.v, DictKeys(specs.vmap))
        THEN Raise("ValueError")
    ELSE IF specs.validKind = "list" /\ ~PyIn(value_parsed.v, specs.valid)
        THEN Raise("ValueError")
    ELSE value_parsed

\* Property.validate_value: the coercion, then the checks of min, max, valid
validate_value(specs, value) == check_value(specs, Coerce(specs.type, value))

\* Property.set_value: the property after the call, or the exception raised
\* with the property as the call left it
store_value(p, r) ==
    IF r.ok THEN PropOk([p EXCEPT !.value = r.v]) ELSE PropRaise(r.exc, p)
\* mutant: the raw value is stored before it is validated
set_value_commit_first(p, value) ==
    IF validate_value(p.specs, value).ok
    THEN PropOk([p EXCEPT !.value = validate_value(p.specs, value).v])
    ELSE PropRaise(validate_value(p.specs, value).exc, [p EXCEPT !.value = value])
set_value(p, value) == store_value(p, validate_value(p.specs, value))

\* mutant: the default is stored as given, without validation
init_value_unchecked(p, value) == PropOk([p EXCEPT !.value = value])
\* Property.init_value
init_value(p, value) == set_value(p, value)

\* Property.get_value
get_value(p) ==
    IF p.specs.validKind = "dict" THEN DictGet(p.specs.vmap, p.value)
    ELSE Ok(p.value)

Unset == [k |-> "unset", n |-> 0, s |-> <<>>]

\* the body of Property.__init__ once prop_type is known: the coercion of
\* min, max and the entries of a valid list, then init_value
construct(name, value, specs, prop_type, mn, mx, bad) ==
    IF ~mn.ok THEN PropRaise(mn.exc, [name |-> name, specs |-> specs, value |-> Unset])
    ELSE IF ~mx.ok THEN PropRaise(mx.exc, [name |-> name, specs |-> specs, value |-> Unset])
    ELSE IF specs.validKind = "list" /\ bad # {}
        THEN PropRaise(CHOOSE e \in bad : TRUE,
                       [name |-> name, specs |-> specs, value |-> Unset])
    ELSE init_value([name |-> name,
                     specs |-> [specs EXCEPT
                                  !.type = prop_type, !.min = mn.v, !.max = mx.v,
                                  !.valid = IF specs.validKind = "list"
                                            THEN {Coerce(prop_type, val).v : val \in specs.valid}
                                            ELSE specs.valid],
                     value |-> Unset],
                    value)

\* the effective type: specs['type'], or type(value) when there is none
prop_type_of(value, specs) == IF specs.type # "" THEN specs.type ELSE TypeOf(value)

\* Property.__init__: the new property, or the exception that ends the
\* construction
Property(name, value, specs) ==
    construct(name, value, specs, prop_type_of(value, specs),
              IF specs.hasMin THEN Coerce(prop_type_of(value, specs), specs.min)
              ELSE Ok(specs.min),
              IF specs.hasMax THEN Coerce(prop_type_of(value, specs), specs.max)
              ELSE Ok(specs.max),
              {Coerce(prop_type_of(value, specs), val).exc : val \in specs.valid} \ {""})

(***************************************************************************)
(* Text, bytes and responses                                               *)
(***************************************************************************)
\* a response: bytes, the NoResponse sentinel, None, or a raised exception;
\* Text is a str of a definition
Bytes(b) == [kind |-> "bytes", b |-> b, exc |-> ""]
Text(t) == [kind |-> "text", b |-> t, exc |-> ""]
NoResponse == [kind |-> "NoResponse", b |-> <<>>, exc |-> ""]
None == [kind |-> "None", b |-> <<>>, exc |-> ""]
Raised(e) == [kind |-> "raise", b |-> <<>>, exc |-> e]

\* str.replace of the two-character text <<a, b>> by the character c
RECURSIVE Replace(_, _, _, _)
Replace(t, a, b, c) ==
    IF Len(t) < 2 THEN t
    ELSE IF t[1] = a /\ t[2] = b THEN <<c>> \o Replace(SubSeq(t, 3, Len(t)), a, b, c)
    ELSE <<t[1]>> \o Replace(Tail(t), a, b, c)

\* str.encode(): UTF-8; one byte for an ASCII character, two for e-acute
RECURSIVE Encode(_)
Encode(t) ==
    IF t = <<>> THEN <<>>
    ELSE (IF t[1] = "e'" THEN <<"xC3", "xA9">> ELSE <<t[1]>>) \o Encode(Tail(t))

\* bytes.decode('utf-8'): the text, or UnicodeDecodeError on a byte that
\* starts no character
Prepend(c, r) == IF r.ok THEN Ok(StrV(<<c>> \o r.v.s)) ELSE r
RECURSIVE Decode(_)
Decode(b) ==
    IF b = <<>> THEN Ok(StrV(<<>>))
    ELSE IF Len(b) >= 2 /\ b[1] = "xC3" /\ b[2] = "xA9"
        THEN Prepend("e'", Decode(SubSeq(b, 3, Len(b))))
    ELSE IF b[1] \in {"xC3", "xA9", "xFF"} THEN Raise("UnicodeDecodeError")
    ELSE Prepend(b[1], Decode(Tail(b)))

\* mutant: the sentinel is encoded like a text, to the empty byte string
to_bytes_encodes_sentinel(val) ==
    Bytes(Encode(Replace(Replace(val.b, "\\", "r", "CR"), "\\", "n", "LF")))
\* to_bytes
to_bytes(val) ==
    IF val = NoResponse THEN val
    ELSE Bytes(Encode(Replace(Replace(val.b, "\\", "r", "CR"), "\\", "n", "LF")))

(***************************************************************************)
(* Replacement fields: str.format (getter templates) and                   *)
(* stringparser.Parser (setter patterns).  The templates of this model     *)
(* hold one field at most, the patterns exactly one.                       *)
(***************************************************************************)
FirstPos(t, c) ==
    IF \E i \in 1..Len(t) : t[i] = c
    THEN CHOOSE i \in 1..Len(t) : t[i] = c /\ \A j \in 1..(i - 1) : t[j] # c
    ELSE 0

\* the literal before the field, the format spec of the field (after its
\* ":"), the literal after it; not ok when a "{" is never closed
FieldAt(t, i, j) ==
    IF i = 0 /\ j = 0
    THEN [ok |-> TRUE, field |-> FALSE, pre |-> t, fmt |-> <<>>, post |-> <<>>]
    ELSE IF i = 0 \/ j < i
    THEN [ok |-> FALSE, field |-> FALSE, pre |-> t, fmt |-> <<>>, post |-> <<>>]
    ELSE [ok |-> TRUE, field |-> TRUE, pre |-> SubSeq(t, 1, i - 1),
          fmt |-> IF j > i + 1 /\ t[i + 1] = ":" THEN SubSeq(t, i + 2, j - 1)
                  ELSE SubSeq(t, i + 1, j - 1),
          post |-> SubSeq(t, j + 1, Len(t))]
SplitField(t) == FieldAt(t, FirstPos(t, "{"), FirstPos(t, "}"))

\* format(value, spec) for the specs "" and ".2f"
FormatValue(value, fmt) ==
    IF fmt = <<>> THEN PyStr(value)
    ELSE IF fmt = <<".", "2", "f">> /\ value.k = "nan" THEN Ok(StrV(<<"n", "a", "n">>))
    ELSE IF fmt = <<".", "2", "f">> /\ IsNum(value)
        THEN Ok(StrV(FloatText(Scaled(value), 2)))
    ELSE Raise("ValueError")

\* response.format(value)
Fill(f, r) == IF r.ok THEN Ok(StrV(f.pre \o r.v.s \o f.post)) ELSE r
FormatField(template, value, f) ==
    IF ~f.ok THEN Raise("ValueError")
    ELSE IF ~f.field THEN Ok(StrV(template))
    ELSE Fill(f, FormatValue(value, f.fmt))
Format(template, value) == FormatField(template, value, SplitField(template))

\* stringparser.Parser(query): the compiled pattern, or ValueError for a
\* pattern whose field is not closed
Parser(query) == SplitField(query)

IsPrefix(a, t) == Len(a) <= Len(t) /\ SubSeq(t, 1, Len(a)) = a
IsSuffix(a, t) == Len(a) <= Len(t) /\ SubSeq(t, Len(t) - Len(a) + 1, Len(t)) = a

IsWord(t) == t # <<>> /\ \A i \in 1..Len(t) : t[i] \notin {" ", "-", "+", ".", "?", "{", "}"}

\* parser(q): the value of the field, converted as its format spec says
\* ({} and {:s}: a word, as str; {:d}: a signed integer, as int; {:f}: a
\* signed decimal ending in a digit, as float), or ValueError when q does
\* not fit the pattern
Convert(fmt, tok) ==
    IF fmt \in {<<>>, <<"s">>}
        THEN IF IsWord(tok) THEN Ok(StrV(tok)) ELSE Raise("ValueError")
    ELSE IF fmt = <<"d">>
        THEN IF IsIntLit(tok) THEN IntOfText(tok) ELSE Raise("ValueError")
    ELSE IF fmt = <<"f">>
        THEN IF IsDecLit(tok) /\ IsDigit(tok[Len(tok)]) THEN FloatOfText(tok)
             ELSE Raise("ValueError")
    ELSE Raise("ValueError")
Parse(parser, q) ==
    IF ~(Len(parser.pre) + Len(parser.post) <= Len(q)
         /\ IsPrefix(parser.pre, q) /\ IsSuffix(parser.post, q))
    THEN Raise("ValueError")
    ELSE IF ~parser.field THEN Raise("ValueError")
    ELSE Convert(parser.fmt, SubSeq(q, Len(parser.pre) + 1, Len(q) - Len(parser.post)))

(***************************************************************************)
(* Component                                                               *)
(***************************************************************************)
VARIABLES
    dialogues,    \* self._dialogues: query bytes -> response
    properties,   \* self._properties: name -> Property
    getters,      \* self._getters: query bytes -> [name, response]
    setters,      \* self._setters: list of [name, parser, response, error_response]
    last,         \* the last call: its arguments, what it returned or raised,
                  \* the table and setter that decided it, the properties before it
    written,      \* per property, the value of its last successful write
    comps,        \* two more Component objects: their four attributes
    solo,         \* for each of the two, the object its own calls alone produce
    reply         \* the last call to one of the two: what it returned, and
                  \* what the same call returned when made to solo

vars == <<dialogues, properties, getters, setters, last, written, comps, solo, reply>>

EmptyDict == [x \in {} |-> None]
\* d[k] = v
DictSet(d, k, v) == [x \in (DOMAIN d) \cup {k} |-> IF x = k THEN v ELSE d[x]]

\* Device.error_response('command_error'): the generic command-error response
error_response(name) == Bytes(<<"E", "R", "R">>)

\* mutant: a query that is registered keeps its first response
add_dialogue_keep_first(dlgs, query, response) ==
    IF to_bytes(query).b \in DOMAIN dlgs THEN dlgs
    ELSE DictSet(dlgs, to_bytes(query).b, to_bytes(response))
\* Component.add_dialogue
add_dialogue(dlgs, query, response) ==
    DictSet(dlgs, to_bytes(query).b, to_bytes(response))

\* mutant: the getter is registered before the Property is constructed
register_getter_first(d, props, gtrs, sts, P, parser) ==
    [built |-> P.ok,
     res |-> IF ~P.ok THEN Raised(P.exc)
             ELSE IF d.hasSetter /\ ~parser.ok THEN Raised("ValueError") ELSE None,
     props |-> IF P.ok THEN DictSet(props, d.name, P.p) ELSE props,
     gtrs |-> IF d.hasGetter
              THEN DictSet(gtrs, to_bytes(d.getter.query).b,
                           [name |-> d.name, response |-> d.getter.response.b])
              ELSE gtrs,
     sts |-> IF P.ok /\ d.hasSetter /\ parser.ok
             THEN Append(sts, [name |-> d.name, parser |-> parser,
                               response |-> to_bytes(d.setter.response),
                               error_response |-> to_bytes(d.setter.error)])
             ELSE sts]
\* the body of Component.add_property after the Property is constructed
\* (P) and the setter pattern compiled (parser)
register(d, props, gtrs, sts, P, parser) ==
    IF ~P.ok
    THEN [built |-> FALSE, res |-> Raised(P.exc), props |-> props, gtrs |-> gtrs, sts |-> sts]
    ELSE [built |-> TRUE,
          res |-> IF d.hasSetter /\ ~parser.ok THEN Raised("ValueError") ELSE None,
          props |-> DictSet(props, d.name, P.p),
          gtrs |-> IF d.hasGetter
                   THEN DictSet(gtrs, to_bytes(d.getter.query).b,
                                [name |-> d.name, response |-> d.getter.response.b])
                   ELSE gtrs,
          sts |-> IF d.hasSetter /\ parser.ok
                  THEN Append(sts, [name |-> d.name, parser |-> parser,
                                    response |-> to_bytes(d.setter.response),
                                    error_response |-> to_bytes(d.setter.error)])
                  ELSE sts]

\* Component.add_property, d the record of its arguments: the tables after
\* the call, whether the Property was constructed, and the exception the
\* call raised, if any
add_property(d, props, gtrs, sts) ==
    register(d, props, gtrs, sts, Property(d.name, d.default_value, d.specs),
             Parser(d.setter.query.b))

\* mutant: the dialogue table is never hit
match_dialog_miss(query, dlgs) == None
\* Component._match_dialog
match_dialog(query, dlgs) ==
    IF query \in DOMAIN dlgs THEN dlgs[query] ELSE None

\* the response of a getter: the read value formatted and encoded
encode_response(r) == IF ~r.ok THEN Raised(r.exc) ELSE Bytes(Encode(r.v.s))
format_response(response, v) ==
    IF ~v.ok THEN Raised(v.exc) ELSE encode_response(Format(response, v.v))

\* Component._match_getters
match_getters(query, gtrs, props) ==
    IF query \in DOMAIN gtrs
    THEN IF gtrs[query].name \notin DOMAIN props THEN Raised("KeyError")
         ELSE format_response(gtrs[query].response, get_value(props[gtrs[query].name]))
    ELSE None

\* what a match did: its result, the properties after it, the table and the
\* setter (index, parsed value) that decided it, whether a write succeeded
Outcome(res, props, table, idx, value, wrote) ==
    [res |-> res, props |-> props, table |-> table, idx |-> idx,
     value |-> value, wrote |-> wrote]

\* mutant: a successful write is answered but not kept
write_outcome_no_commit(st, props, i, value, w) ==
    IF w.ok THEN Outcome(st.response, props, "setter", i, value, TRUE)
    ELSE Outcome(IF st.error_response.kind = "bytes" THEN st.error_response
                 ELSE error_response("command_error"),
                 props, "setter", i, value, FALSE)
\* mutant: the ValueError of a failed write is not caught
write_outcome_propagate(st, props, i, value, w) ==
    IF w.ok
    THEN Outcome(st.response, [props EXCEPT ![st.name] = w.p], "setter", i, value, TRUE)
    ELSE Outcome(Raised(w.exc), [props EXCEPT ![st.name] = w.p], "setter", i, value, FALSE)
\* mutant: the write lands in every property of the component
write_outcome_all(st, props, i, value, w) ==
    IF w.ok
    THEN Outcome(st.response, [n \in DOMAIN props |-> [props[n] EXCEPT !.value = w.p.value]],
                 "setter", i, value, TRUE)
    ELSE Outcome(IF st.error_response.kind = "bytes" THEN st.error_response
                 ELSE error_response("command_error"),
                 props, "setter", i, value, FALSE)
\* the second try block of Component._match_setters: w is what set_value did
write_outcome(st, props, i, value, w) ==
    IF w.ok
    THEN Outcome(st.response, [props EXCEPT ![st.name] = w.p], "setter", i, value, TRUE)
    ELSE IF w.exc = "ValueError"
    THEN Outcome(IF st.error_response.kind = "bytes" THEN st.error_response
                 ELSE error_response("command_error"),
                 [props EXCEPT ![st.name] = w.p], "setter", i, value, FALSE)
    ELSE Outcome(Raised(w.exc), [props EXCEPT ![st.name] = w.p], "setter", i, value, FALSE)

\* the loop of Component._match_setters from setter i on, q the decoded query
RECURSIVE scan_setters(_, _, _, _)
\* mutant: a setter whose write fails is skipped like one that does not parse
try_setter_skip_failed(q, sts, props, i, value) ==
    IF ~value.ok THEN scan_setters(q, sts, props, i + 1)
    ELSE IF ~set_value(props[sts[i].name], value.v).ok
        THEN scan_setters(q, sts, props, i + 1)
    ELSE Outcome(sts[i].response,
                 [props EXCEPT ![sts[i].name] = set_value(props[sts[i].name], value.v).p],
                 "setter", i, value.v, TRUE)
try_setter(q, sts, props, i, value) ==
    IF ~value.ok THEN scan_setters(q, sts, props, i + 1)
    ELSE IF sts[i].name \notin DOMAIN props
        THEN Outcome(Raised("KeyError"), props, "setter", i, value.v, FALSE)
    ELSE write_outcome(sts[i], props, i, value.v, set_value(props[sts[i].name], value.v))
scan_setters(q, sts, props, i) ==
    IF i > Len(sts) THEN Outcome(None, props, "none", 0, Unset, FALSE)
    ELSE try_setter(q, sts, props, i, Parse(sts[i].parser, q))

\* Component._match_setters
decoded_scan(q, sts, props) ==
    IF ~q.ok THEN Outcome(Raised(q.exc), props, "setter", 0, Unset, FALSE)
    ELSE scan_setters(q.v.s, sts, props, 1)
match_setters(query, sts, props) == decoded_scan(Decode(query), sts, props)

\* Component.match: dialogues, then getters, then setters
first_match(d, g, s, props) ==
    IF d # None THEN Outcome(d, props, "dialogue", 0, Unset, FALSE)
    ELSE IF g # None THEN Outcome(g, props, "getter", 0, Unset, FALSE)
    ELSE s
match(query, dlgs, gtrs, sts, props) ==
    first_match(match_dialog(query, dlgs), match_getters(query, gtrs, props),
                match_setters(query, sts, props), props)

(***************************************************************************)
(* The definitions a device is built from, and the calls made to it        *)
(***************************************************************************)
MaxSetters == 2
MaxDialogues == 1

NoSpecs ==
    [type |-> "", hasMin |-> FALSE, min |-> Unset, hasMax |-> FALSE, max |-> Unset,
     validKind |-> "none", valid |-> {}, vmap |-> {}]

\* type float, min 0, max 5
FreqSpecs ==
    [NoSpecs EXCEPT !.type = "float", !.hasMin = TRUE, !.min = IntV(0),
                    !.hasMax = TRUE, !.max = IntV(5)]

\* type int, valid {0: 'OFF', 1: 'ON', '2': 'AUTO'}
StateSpecs ==
    [NoSpecs EXCEPT !.type = "int", !.validKind = "dict",
                    !.vmap = {[key |-> IntV(0), disp |-> StrV(<<"O", "F", "F">>)],
                              [key |-> IntV(1), disp |-> StrV(<<"O", "N">>)],
                              [key |-> StrV(<<"2">>), disp |-> StrV(<<"A">>)]}]

\* no type (the default's type, int, is used), valid ['0', 1]
ListSpecs ==
    [NoSpecs EXCEPT !.validKind = "list", !.valid = {StrV(<<"0">>), IntV(1)}]

NoPair == [query |-> Text(<<>>), response |-> Text(<<>>)]
NoTriplet == [query |-> Text(<<>>), response |-> NoResponse, error |-> NoResponse]

PropDefs ==
    { \* freq: getter F? -> {:.2f}, setter F {:f} -> OK, no error response
      [name |-> "f", default_value |-> StrV(<<"5">>), specs |-> FreqSpecs,
       hasGetter |-> TRUE,
       getter |-> [query |-> Text(<<"F", "?">>), response |-> Text(<<"{", ":", ".", "2", "f", "}">>)],
       hasSetter |-> TRUE,
       setter |-> [query |-> Text(<<"F", " ", "{", ":", "f", "}">>),
                   response |-> Text(<<"O", "K">>), error |-> NoResponse]],
      \* freq: getter F 1 -> {}, setter F {} -> OK, error E
      [name |-> "f", default_value |-> StrV(<<"5">>), specs |-> FreqSpecs,
       hasGetter |-> TRUE,
       getter |-> [query |-> Text(<<"F", " ", "1">>), response |-> Text(<<"{", "}">>)],
       hasSetter |-> TRUE,
       setter |-> [query |-> Text(<<"F", " ", "{", "}">>),
                   response |-> Text(<<"O", "K">>), error |-> Text(<<"E">>)]],
      \* state: getter S? -> {}, setter F {:d} -> no response, error E
      [name |-> "s", default_value |-> IntV(0), specs |-> StateSpecs,
       hasGetter |-> TRUE,
       getter |-> [query |-> Text(<<"S", "?">>), response |-> Text(<<"{", "}">>)],
       hasSetter |-> TRUE,
       setter |-> [query |-> Text(<<"F", " ", "{", ":", "d", "}">>),
                   response |-> NoResponse, error |-> Text(<<"E">>)]],
      \* state, with a list of valid values; no getter, no setter
      [name |-> "s", default_value |-> IntV(0), specs |-> ListSpecs,
       hasGetter |-> FALSE, getter |-> NoPair, hasSetter |-> FALSE, setter |-> NoTriplet],
      \* state, with a default that is not valid
      [name |-> "s", default_value |-> IntV(7), specs |-> StateSpecs,
       hasGetter |-> TRUE,
       getter |-> [query |-> Text(<<"S", "?">>), response |-> Text(<<"{", "}">>)],
       hasSetter |-> FALSE, setter |-> NoTriplet] }

DialogueDefs ==
    { [query |-> Text(<<"I", "?">>), response |-> Text(<<"S", "I", "M">>)],
      [query |-> Text(<<"F", " ", "1">>), response |-> Text(<<"D">>)] }

Queries ==
    { <<"I", "?">>, <<"F", "?">>, <<"S", "?">>, <<"X", "?">>,
      <<"F", " ", "0">>, <<"F", " ", "1">>, <<"F", " ", "2">>, <<"F", " ", "7">>, <<"F", " ", "-", "1">>,
      <<"F", " ", "n", "a", "n">>, <<"F", " ", "a", "b", "c">> }

RawValues ==
    { IntV(0), IntV(1), IntV(5), IntV(7), StrV(<<"2">>), StrV(<<"n", "a", "n">>),
      StrV(<<"a", "b", "c">>) }

\* Component.__init__: the attributes of a new object
Component ==
    [dialogues |-> EmptyDict, properties |-> EmptyDict, getters |-> EmptyDict,
     setters |-> <<>>]
\* the Component objects beside the first
Instances == {1, 2}

Call(op, query, name, raw, out, pre) ==
    [op |-> op, query |-> query, name |-> name, raw |-> raw, res |-> out.res,
     table |-> out.table, idx |-> out.idx, value |-> out.value, wrote |-> out.wrote,
     pre |-> pre]

\* Component.__init__
Init ==
    /\ dialogues = EmptyDict
    /\ properties = EmptyDict
    /\ getters = EmptyDict
    /\ setters = <<>>
    /\ written = EmptyDict
    /\ last = Call("init", <<>>, "", Unset,
                   Outcome(None, EmptyDict, "none", 0, Unset, FALSE), EmptyDict)
    /\ comps = [c \in Instances |-> Component]
    /\ solo = [c \in Instances |-> Component]
    /\ reply = [c |-> 0, query |-> <<>>, res |-> None, alone |-> None]

\* add_dialogue(query, response)
AddDialogue(d) ==
    /\ to_bytes(d.query).b \in DOMAIN dialogues
          \/ Cardinality(DOMAIN dialogues) < MaxDialogues
    /\ dialogues' = add_dialogue(dialogues, d.query, d.response)
    /\ last' = Call("add_dialogue", to_bytes(d.query).b, "", Unset,
                    Outcome(None, properties, "none", 0, Unset, FALSE), properties)
    /\ UNCHANGED <<properties, getters, setters, written, comps, solo, reply>>

\* add_property(name, default_value, getter_pair, setter_triplet, specs)
AddPropertyDo(d, r) ==
    /\ properties' = r.props
    /\ getters' = r.gtrs
    /\ setters' = r.sts
    /\ written' = IF r.built
                  THEN DictSet(written, d.name, r.props[d.name].value)
                  ELSE written
    /\ last' = Call("add_property", <<>>, d.name, d.default_value,
                    Outcome(r.res, r.props, "none", 0, Unset, FALSE), properties)
    /\ UNCHANGED <<dialogues, comps, solo, reply>>
AddProperty(d) ==
    /\ Len(setters) < MaxSetters
    /\ AddPropertyDo(d, add_property(d, properties, getters, setters))

\* match(query)
QueryDo(q, out) ==
    /\ properties' = out.props
    /\ written' = IF out.wrote
                  THEN [written EXCEPT ![setters[out.idx].name] =
                           Coerce(properties[setters[out.idx].name].specs.type, out.value).v]
                  ELSE written
    /\ last' = Call("match", q, "", Unset, out, properties)
    /\ UNCHANGED <<dialogues, getters, setters, comps, solo, reply>>
Query(q) == QueryDo(q, match(q, dialogues, getters, setters, properties))

\* properties[name].set_value(raw)
SetValueDo(name, raw, w) ==
    /\ properties' = [properties EXCEPT ![name] = w.p]
    /\ written' = IF w.ok
                  THEN [written EXCEPT ![name] = Coerce(properties[name].specs.type, raw).v]
                  ELSE written
    /\ last' = Call("set_value", <<>>, name, raw,
                    Outcome(IF w.ok THEN None ELSE Raised(w.exc), properties', "none", 0, raw, w.ok),
                    properties)
    /\ UNCHANGED <<dialogues, getters, setters, comps, solo, reply>>
SetValue(name, raw) == SetValueDo(name, raw, set_value(properties[name], raw))

Next ==
    \/ \E d \in DialogueDefs : AddDialogue(d)
    \/ \E d \in PropDefs : AddProperty(d)
    \/ \E q \in Queries : Query(q)
    \/ \E name \in DOMAIN properties, raw \in RawValues : SetValue(name, raw)

Spec == Init /\ [][Next]_vars

(***************************************************************************)
(* A device whose definitions use the escapes \r and \n, and queries with  *)
(* control bytes and with a byte that is no UTF-8                          *)
(***************************************************************************)
EscDialogueDefs ==
    { \* 'I\n' -> 'S\r'
      [query |-> Text(<<"I", "\\", "n">>), response |-> Text(<<"S", "\\", "r">>)] }

EscPropDefs ==
    { \* freq: getter 'F?\n' -> '{}\n', setter 'F {:d}\n' -> 'OK\n', error 'E\r'
      [name |-> "f", default_value |-> StrV(<<"5">>), specs |-> FreqSpecs,
       hasGetter |-> TRUE,
       getter |-> [query |-> Text(<<"F", "?", "\\", "n">>),
                   response |-> Text(<<"{", "}", "\\", "n">>)],
       hasSetter |-> TRUE,
       setter |-> [query |-> Text(<<"F", " ", "{", ":", "d", "}", "\\", "n">>),
                   response |-> Text(<<"O", "K", "\\", "n">>),
                   error |-> Text(<<"E", "\\", "r">>)]],
      \* freq: getter 'F?' -> '{:.2f}', setter 'F {:f}' -> 'OK', no error response
      [name |-> "f", default_value |-> StrV(<<"5">>), specs |-> FreqSpecs,
       hasGetter |-> TRUE,
       getter |-> [query |-> Text(<<"F", "?">>), response |-> Text(<<"{", ":", ".", "2", "f", "}">>)],
       hasSetter |-> TRUE,
       setter |-> [query |-> Text(<<"F", " ", "{", ":", "f", "}">>),
                   response |-> Text(<<"O", "K">>), error |-> NoResponse]] }

\* queries ending in the line feed byte, queries ending in the two
\* characters \ and n, and the byte 0xFF
EscQueries ==
    { <<"I", "LF">>, <<"I", "\\", "n">>, <<"F", "?", "LF">>, <<"F", "?">>,
      <<"F", " ", "1", "LF">>, <<"F", " ", "1", "\\", "n">>, <<"F", " ", "7", "\\", "n">>,
      <<"F", " ", "0">>, <<"F", " ", "7">>, <<"X", "?">>, <<"xFF">> }

NextEsc ==
    \/ \E d \in EscDialogueDefs : AddDialogue(d)
    \/ \E d \in EscPropDefs : AddProperty(d)
    \/ \E q \in EscQueries : Query(q)

SpecEsc == Init /\ [][NextEsc]_vars

(***************************************************************************)
(* A device whose definitions repeat queries, patterns and property names, *)
(* fail to construct, or answer with the NoResponse sentinel               *)
(***************************************************************************)
DupDialogueDefs ==
    { [query |-> Text(<<"I", "?">>), response |-> Text(<<"S", "I", "M">>)],
      [query |-> Text(<<"I", "?">>), response |-> Text(<<"X">>)],
      [query |-> Text(<<"N", "?">>), response |-> NoResponse],
      [query |-> Text(<<"E", "?">>), response |-> Text(<<>>)] }

DupPropDefs ==
    { \* freq: getter F? -> {:.2f}, setter F {:f} -> OK, no error response
      [name |-> "f", default_value |-> StrV(<<"5">>), specs |-> FreqSpecs,
       hasGetter |-> TRUE,
       getter |-> [query |-> Text(<<"F", "?">>), response |-> Text(<<"{", ":", ".", "2", "f", "}">>)],
       hasSetter |-> TRUE,
       setter |-> [query |-> Text(<<"F", " ", "{", ":", "f", "}">>),
                   response |-> Text(<<"O", "K">>), error |-> NoResponse]],
      \* state: getter S? -> {}, setter S {:d} -> no response, error E
      [name |-> "s", default_value |-> IntV(0), specs |-> StateSpecs,
       hasGetter |-> TRUE,
       getter |-> [query |-> Text(<<"S", "?">>), response |-> Text(<<"{", "}">>)],
       hasSetter |-> TRUE,
       setter |-> [query |-> Text(<<"S", " ", "{", ":", "d", "}">>),
                   response |-> NoResponse, error |-> Text(<<"E">>)]],
      \* state again, with a list of valid values; the getter query and the
      \* setter pattern of freq again: getter F? -> {}, setter F {:f} -> K
      [name |-> "s", default_value |-> IntV(1), specs |-> ListSpecs,
       hasGetter |-> TRUE,
       getter |-> [query |-> Text(<<"F", "?">>), response |-> Text(<<"{", "}">>)],
       hasSetter |-> TRUE,
       setter |-> [query |-> Text(<<"F", " ", "{", ":", "f", "}">>),
                   response |-> Text(<<"K">>), error |-> Text(<<"E">>)]],
      \* gain: getter G? -> {}, and a setter pattern whose field is not closed
      [name |-> "g", default_value |-> IntV(1), specs |-> NoSpecs,
       hasGetter |-> TRUE,
       getter |-> [query |-> Text(<<"G", "?">>), response |-> Text(<<"{", "}">>)],
       hasSetter |-> TRUE,
       setter |-> [query |-> Text(<<"G", " ", "{">>),
                   response |-> Text(<<"O", "K">>), error |-> Text(<<"E">>)]],
      \* freq with a default that is no float
      [name |-> "f", default_value |-> StrV(<<"a", "b", "c">>), specs |-> FreqSpecs,
       hasGetter |-> TRUE,
       getter |-> [query |-> Text(<<"F", "?">>), response |-> Text(<<"{", "}">>)],
       hasSetter |-> TRUE,
       setter |-> [query |-> Text(<<"F", " ", "{", "}">>),
                   response |-> Text(<<"O", "K">>), error |-> Text(<<"E">>)]],
      \* freq with a default above max
      [name |-> "f", default_value |-> StrV(<<"7">>), specs |-> FreqSpecs,
       hasGetter |-> TRUE,
       getter |-> [query |-> Text(<<"F", "?">>), response |-> Text(<<"{", "}">>)],
       hasSetter |-> FALSE, setter |-> NoTriplet],
      \* state with a default that is not valid
      [name |-> "s", default_value |-> IntV(7), specs |-> StateSpecs,
       hasGetter |-> TRUE,
       getter |-> [query |-> Text(<<"S", "?">>), response |-> Text(<<"{", "}">>)],
       hasSetter |-> FALSE, setter |-> NoTriplet] }

DupQueries ==
    { <<"I", "?">>, <<"N", "?">>, <<"E", "?">>, <<"F", "?">>, <<"S", "?">>, <<"G", "?">>,
      <<"X", "?">>, <<"F", " ", "0">>, <<"F", " ", "1">>, <<"S", " ", "1">>, <<"S", " ", "7">> }

NextDup ==
    \/ \E d \in DupDialogueDefs : AddDialogue(d)
    \/ \E d \in DupPropDefs : AddProperty(d)
    \/ \E q \in DupQueries : Query(q)

SpecDup == Init /\ [][NextDup]_vars

(***************************************************************************)
(* Two Component objects, each built and queried by its own calls, in any  *)
(* interleaving                                                            *)
(***************************************************************************)
TwoPropDefs ==
    { \* freq: getter F? -> {:.2f}, setter F {:f} -> OK, no error response
      [name |-> "f", default_value |-> StrV(<<"5">>), specs |-> FreqSpecs,
       hasGetter |-> TRUE,
       getter |-> [query |-> Text(<<"F", "?">>), response |-> Text(<<"{", ":", ".", "2", "f", "}">>)],
       hasSetter |-> TRUE,
       setter |-> [query |-> Text(<<"F", " ", "{", ":", "f", "}">>),
                   response |-> Text(<<"O", "K">>), error |-> NoResponse]],
      \* state: getter S? -> {}, setter F {:d} -> no response, error E
      [name |-> "s", default_value |-> IntV(0), specs |-> StateSpecs,
       hasGetter |-> TRUE,
       getter |-> [query |-> Text(<<"S", "?">>), response |-> Text(<<"{", "}">>)],
       hasSetter |-> TRUE,
       setter |-> [query |-> Text(<<"F", " ", "{", ":", "d", "}">>),
                   response |-> NoResponse, error |-> Text(<<"E">>)]] }

TwoQueries == { <<"F", "?">>, <<"S", "?">>, <<"F", " ", "0">>, <<"F", " ", "1">>, <<"F", " ", "7">> }

\* mutant: _properties is one dictionary of the class, shared by all objects
self_properties_shared(objs, self, props) ==
    [c \in DOMAIN objs |-> [objs[c] EXCEPT !.properties = props]]
\* the objects after a call to the object self left its properties as props:
\* _properties is an attribute of the object, made in its __init__
self_properties(objs, self, props) == [objs EXCEPT ![self].properties = props]

\* the object after add_property returned r
Registered(obj, r) ==
    [dialogues |-> obj.dialogues, properties |-> r.props, getters |-> r.gtrs,
     setters |-> r.sts]

\* comps[c].add_property(...)
TwoAddPropertyDo(c, r, ra) ==
    /\ comps' = [self_properties(comps, c, r.props) EXCEPT
                    ![c].getters = r.gtrs, ![c].setters = r.sts]
    /\ solo' = [solo EXCEPT ![c] = Registered(solo[c], ra)]
    /\ reply' = [c |-> c, query |-> <<>>, res |-> r.res, alone |-> ra.res]
    /\ UNCHANGED <<dialogues, properties, getters, setters, last, written>>
TwoAddProperty(c, d) ==
    /\ Len(comps[c].setters) < MaxSetters
    /\ TwoAddPropertyDo(c,
           add_property(d, comps[c].properties, comps[c].getters, comps[c].setters),
           add_property(d, solo[c].properties, solo[c].getters, solo[c].setters))

\* comps[c].match(q)
TwoQueryDo(c, q, out, alone) ==
    /\ comps' = self_properties(comps, c, out.props)
    /\ solo' = [solo EXCEPT ![c].properties = alone.props]
    /\ reply' = [c |-> c, query |-> q, res |-> out.res, alone |-> alone.res]
    /\ UNCHANGED <<dialogues, properties, getters, setters, last, written>>
TwoQuery(c, q) ==
    TwoQueryDo(c, q,
        match(q, comps[c].dialogues, comps[c].getters, comps[c].setters, comps[c].properties),
        match(q, solo[c].dialogues, solo[c].getters, solo[c].setters, solo[c].properties))

NextTwo ==
    \/ \E c \in Instances, d \in TwoPropDefs : TwoAddProperty(c, d)
    \/ \E c \in Instances, q \in TwoQueries : TwoQuery(c, q)

SpecTwo == Init /\ [][NextTwo]_vars

(***************************************************************************)
(* Properties of the calls                                                 *)
(***************************************************************************)
\* the coerced value violates a declared constraint of specs
Below(specs, c) == specs.hasMin /\ PyLt(c, specs.min)
Above(specs, c) == specs.hasMax /\ PyGt(c, specs.max)
NotValid(specs, c) ==
    \/ specs.validKind = "dict" /\ ~PyIn(c, DictKeys(specs.vmap))
    \/ specs.validKind = "list" /\ ~PyIn(c, specs.valid)
\* raw coerces to the type of specs and the coerced value fails a constraint
FailsConstraint(specs, raw) ==
    /\ Coerce(specs.type, raw).ok
    /\ \/ Below(specs, Coerce(specs.type, raw).v)
       \/ Above(specs, Coerce(specs.type, raw).v)
       \/ NotValid(specs, Coerce(specs.type, raw).v)

\* the setters whose pattern parses the byte query
Parsing(query) ==
    {i \in 1..Len(setters) : Decode(query).ok /\ Parse(setters[i].parser, Decode(query).v.s).ok}
First(S) == CHOOSE i \in S : \A j \in S : i <= j
Parsed(query, i) == Parse(setters[i].parser, Decode(query).v.s).v

\* the last call was a match that reached the setter scan, and a setter parsed it
SetterDecided ==
    /\ last.op = "match"
    /\ last.query \notin DOMAIN dialogues
    /\ last.query \notin DOMAIN getters
    /\ Parsing(last.query) # {}
\* the property the last call wrote or tried to write: that of set_value,
\* or that of the first setter that parsed the query
Target ==
    IF last.op = "set_value" THEN last.name ELSE setters[First(Parsing(last.query))].name
\* the value handed to set_value
Handed ==
    IF last.op = "set_value" THEN last.raw ELSE Parsed(last.query, First(Parsing(last.query)))
WriteTried == last.op = "set_value" \/ SetterDecided

\* C1: a set_value (direct, or made by a setter match) whose input fails a
\* declared constraint fails, and get_value returns after it what it returned
\* before it
C1_ValidateBeforeCommit ==
    (WriteTried /\ FailsConstraint(last.pre[Target].specs, Handed)) =>
        /\ ~last.wrote
        /\ last.op = "set_value" => last.res = Raised("ValueError")
        /\ get_value(properties[Target]) = get_value(last.pre[Target])
        /\ properties[Target] = last.pre[Target]

\* a failed direct set_value of a constraint-violating input on a property
\* that held another value than its default's
C1_Witness ==
    /\ last.op = "set_value"
    /\ FailsConstraint(last.pre[last.name].specs, last.raw)
    /\ last.res = Raised("ValueError")
    /\ Above(last.pre[last.name].specs, Coerce(last.pre[last.name].specs.type, last.raw).v)
    /\ properties[last.name].value = FloatV(0)

\* a >= b and a <= b (NaN compares False)
PyGe(a, b) ==
    CASE IsNum(a) /\ IsNum(b) -> Scaled(a) >= Scaled(b)
      [] a.k = "str" /\ b.k = "str" -> ~TextLt(a.s, b.s)
      [] OTHER -> FALSE
PyLe(a, b) == PyGe(b, a)

\* the stored value of p is of p's effective type and satisfies p's constraints
Constrained(p) ==
    /\ TypeOf(p.value) = p.specs.type
    /\ p.specs.hasMin => PyGe(p.value, p.specs.min)
    /\ p.specs.hasMax => PyLe(p.value, p.specs.max)
    /\ p.specs.validKind = "dict" => PyIn(p.value, DictKeys(p.specs.vmap))
    /\ p.specs.validKind = "list" => PyIn(p.value, p.specs.valid)

\* C2: in every reachable state each property's stored value is a coerced
\* value of the effective type that is >= min, <= max and in valid, as far
\* as these are declared
C2_StoredValueSatisfiesConstraints ==
    \A n \in DOMAIN properties : Constrained(properties[n])

SetterResponse(i, ok) ==
    IF ok THEN setters[i].response
    ELSE IF setters[i].error_response.kind = "bytes" THEN setters[i].error_response
    ELSE error_response("command_error")

\* C4: the first setter, in registration order, whose pattern parses the
\* query decides the match: the response is its success response or its
\* error response, and no property but its own changes
C4_FirstSetterDecides ==
    SetterDecided =>
        /\ last.idx = First(Parsing(last.query))
        /\ last.res = SetterResponse(First(Parsing(last.query)),
                                     validate_value(last.pre[Target].specs, Handed).ok)
        /\ \A n \in DOMAIN properties : n # Target => properties[n] = last.pre[n]

\* two setters of different properties parse the query, the write of the
\* first failed, and the write of the second would have succeeded and
\* changed its property
C4_Witness ==
    /\ SetterDecided
    /\ ~last.wrote
    /\ \E j \in Parsing(last.query) :
          /\ j > First(Parsing(last.query))
          /\ setters[j].name # Target
          /\ set_value(last.pre[setters[j].name], Parsed(last.query, j)).ok
          /\ set_value(last.pre[setters[j].name], Parsed(last.query, j)).p
                # last.pre[setters[j].name]

\* what get_value returns for the stored value v
Shown(specs, v) == IF specs.validKind = "dict" THEN DictGet(specs.vmap, v) ELSE Ok(v)

\* C5: every getter answers with its template formatted with the value of
\* the last successful write to its property (the default, if there was none)
C5_GetterShowsLastWrite ==
    \A q \in DOMAIN getters :
        match_getters(q, getters, properties) =
            format_response(getters[q].response,
                            Shown(properties[getters[q].name].specs, written[getters[q].name]))

\* after a write of 0 succeeded, a setter match failed, and the getter still
\* answers 0.00
C5_Witness ==
    /\ SetterDecided
    /\ ~last.wrote
    /\ Target = "f"
    /\ written["f"] = FloatV(0)
    /\ \E q \in DOMAIN getters :
          match_getters(q, getters, properties) = Bytes(<<"0", ".", "0", "0">>)

\* C6: a setter match whose write fails with a constraint violation returns
\* the setter's error response, or the generic command-error response when
\* the setter has none; it raises nothing
C6_ViolationBecomesErrorResponse ==
    (SetterDecided /\ FailsConstraint(last.pre[Target].specs, Handed)) =>
        /\ last.res.kind = "bytes"
        /\ setters[First(Parsing(last.query))].error_response.kind = "bytes" =>
              last.res = setters[First(Parsing(last.query))].error_response
        /\ setters[First(Parsing(last.query))].error_response.kind # "bytes" =>
              last.res = error_response("command_error")

\* a constraint violation at a setter without error response
C6_Witness ==
    /\ SetterDecided
    /\ FailsConstraint(last.pre[Target].specs, Handed)
    /\ setters[First(Parsing(last.query))].error_response = NoResponse
    /\ last.res = error_response("command_error")

\* a constraint violation at a setter with an error response
C6_WitnessConfigured ==
    /\ SetterDecided
    /\ FailsConstraint(last.pre[Target].specs, Handed)
    /\ last.res = setters[First(Parsing(last.query))].error_response

\* C7: writing a key of a valid mapping succeeds, and the read that follows
\* returns the display value of that key
C7_MappingRoundTrip ==
    (/\ last.op = "set_value"
     /\ last.pre[last.name].specs.validKind = "dict"
     /\ last.raw \in DictKeys(last.pre[last.name].specs.vmap)) =>
        /\ last.res = None
        /\ get_value(properties[last.name]) =
              Ok((CHOOSE it \in last.pre[last.name].specs.vmap : it.key = last.raw).disp)

\* C8: set_value coerces the input and accepts it exactly when the coerced
\* value is not below min, not above max and in valid; a value equal to min
\* or to max is accepted; the coerced value is what is stored
C8_AcceptsExactlyWithinConstraints ==
    WriteTried =>
        /\ last.wrote <=>
              /\ Coerce(last.pre[Target].specs.type, Handed).ok
              /\ ~FailsConstraint(last.pre[Target].specs, Handed)
        /\ last.wrote =>
              properties[Target].value = Coerce(last.pre[Target].specs.type, Handed).v
        /\ ~last.wrote => properties[Target].value = last.pre[Target].value
        /\ last.op = "set_value" => (last.wrote <=> last.res = None)
        /\ (/\ Coerce(last.pre[Target].specs.type, Handed).ok
            /\ ~NotValid(last.pre[Target].specs, Coerce(last.pre[Target].specs.type, Handed).v)
            /\ \/ /\ last.pre[Target].specs.hasMin
                  /\ PyEq(Coerce(last.pre[Target].specs.type, Handed).v,
                          last.pre[Target].specs.min)
               \/ /\ last.pre[Target].specs.hasMax
                  /\ PyEq(Coerce(last.pre[Target].specs.type, Handed).v,
                          last.pre[Target].specs.max)) => last.wrote

\* an int equal to min was written to a float property that held another
\* value: the float is stored
C8_Witness ==
    /\ last.op = "set_value"
    /\ last.wrote
    /\ last.pre[last.name].specs.hasMin
    /\ last.raw = IntV(0)
    /\ properties[last.name].value = FloatV(0)
    /\ last.pre[last.name].value # FloatV(0)

\* a value equal to max was written
C8_WitnessMax ==
    /\ WriteTried
    /\ last.wrote
    /\ last.pre[Target].specs.hasMax
    /\ PyEq(properties[Target].value, last.pre[Target].specs.max)
    /\ last.pre[Target].value # properties[Target].value

\* C9: when a setter pattern parses the query and the parsed value cannot be
\* coerced to the property's type, the match does not answer with the
\* setter's error response (nor with the generic one)
C9_ConversionFailureNotErrorResponse ==
    (SetterDecided /\ ~Coerce(last.pre[Target].specs.type, Handed).ok) =>
        last.res # SetterResponse(First(Parsing(last.query)), FALSE)

\* C10: every getter and setter names a property of the component, and the
\* read a getter match makes succeeds: for a valid mapping the stored value
\* is one of its keys
C10_EntriesNameReadableProperties ==
    /\ \A q \in DOMAIN getters : getters[q].name \in DOMAIN properties
    /\ \A i \in 1..Len(setters) : setters[i].name \in DOMAIN properties
    /\ \A q \in DOMAIN getters :
          /\ get_value(properties[getters[q].name]).ok
          /\ properties[getters[q].name].specs.validKind = "dict" =>
                PyIn(properties[getters[q].name].value,
                     DictKeys(properties[getters[q].name].specs.vmap))
    /\ (last.op = "match" /\ last.table = "getter") => last.res.exc # "KeyError"

\* a getter match read a property with a valid mapping, after a write to it
C10_Witness ==
    /\ last.op = "match"
    /\ last.table = "getter"
    /\ properties[getters[last.query].name].specs.validKind = "dict"
    /\ properties[getters[last.query].name].value = IntV(1)
    /\ last.res = Bytes(<<"O", "N">>)


\* the last call was a match that neither the dialogues nor the getters took
ReachedSetters ==
    /\ last.op = "match"
    /\ last.query \notin DOMAIN dialogues
    /\ last.query \notin DOMAIN getters

\* C11: a setter whose pattern does not fit the query is skipped and the
\* scan goes on: the first setter that parses the query decides, and a query
\* that is no dialogue, no getter and parsed by no setter gets None and
\* changes no property
C11_UnfitSkippedElseNoMatch ==
    ReachedSetters =>
        /\ Parsing(last.query) # {} =>
              /\ last.idx = First(Parsing(last.query))
              /\ last.table = "setter"
        /\ Parsing(last.query) = {} =>
              /\ last.res = None
              /\ properties = last.pre

\* the same, for the queries that decode as UTF-8
C11_DecodableUnfitSkipped ==
    (ReachedSetters /\ Decode(last.query).ok) =>
        /\ Parsing(last.query) # {} =>
              /\ last.idx = First(Parsing(last.query))
              /\ last.table = "setter"
        /\ Parsing(last.query) = {} =>
              /\ last.res = None
              /\ properties = last.pre

\* the specs as Property.__init__ leaves them for the default value
Effective(value, specs) ==
    [specs EXCEPT !.type = prop_type_of(value, specs),
                  !.min = IF specs.hasMin THEN Coerce(prop_type_of(value, specs), specs.min).v
                          ELSE specs.min,
                  !.max = IF specs.hasMax THEN Coerce(prop_type_of(value, specs), specs.max).v
                          ELSE specs.max,
                  !.valid = IF specs.validKind = "list"
                            THEN {Coerce(prop_type_of(value, specs), v).v : v \in specs.valid}
                            ELSE specs.valid]
\* the default of the definition d cannot be coerced to the effective type,
\* or violates min, max or valid
BadDefault(d) ==
    \/ ~Coerce(prop_type_of(d.default_value, d.specs), d.default_value).ok
    \/ FailsConstraint(Effective(d.default_value, d.specs), d.default_value)
\* the last call was add_property with the definition d
Added(d) ==
    last.op = "add_property" /\ last.name = d.name /\ last.raw = d.default_value

\* C12: add_property with a default that cannot be coerced to the effective
\* type, or that violates min, max or valid, raises and leaves the
\* properties as they were (no property holds that default, nor another
\* one in its place); a default that passes is stored as set_value stores it
C12_DefaultValidatedLikeWrite ==
    \A d \in DupPropDefs :
        Added(d) =>
            /\ BadDefault(d) =>
                  /\ last.res.kind = "raise"
                  /\ properties = last.pre
                  /\ d.name \in DOMAIN properties =>
                        properties[d.name] = last.pre[d.name]
            /\ ~BadDefault(d) =>
                  /\ d.name \in DOMAIN properties
                  /\ properties[d.name].value =
                        Coerce(prop_type_of(d.default_value, d.specs), d.default_value).v
                  /\ set_value(properties[d.name], d.default_value) =
                        PropOk(properties[d.name])

\* add_property with a default that is no float failed on a component whose
\* property of that name held a written value, which it still holds
C12_Witness ==
    /\ last.op = "add_property"
    /\ last.raw = StrV(<<"a", "b", "c">>)
    /\ last.res = Raised("ValueError")
    /\ "f" \in DOMAIN properties
    /\ properties["f"].value = FloatV(0)

\* add_property with a default that is not valid failed on a component
\* without a property of that name
C12_WitnessNew ==
    /\ last.op = "add_property"
    /\ last.raw = IntV(7)
    /\ last.res = Raised("ValueError")
    /\ "s" \notin DOMAIN properties

\* C13: a match changes no table and no property's name or specs; a match
\* that a dialogue or a getter took, or that nothing took, changes no
\* property at all, so the getter query just answered gets the same answer
\* when asked again; a match that a setter took was taken by the first
\* setter whose pattern parsed the query and changes the property of that
\* setter at most, and a setter match that wrote nothing changes none
C13_MatchFrame ==
    [][last'.op = "match" =>
        /\ dialogues' = dialogues
        /\ getters' = getters
        /\ setters' = setters
        /\ DOMAIN properties' = DOMAIN properties
        /\ \A n \in DOMAIN properties :
              /\ properties'[n].name = properties[n].name
              /\ properties'[n].specs = properties[n].specs
        /\ last'.table # "setter" => properties' = properties
        /\ ~last'.wrote => properties' = properties
        /\ last'.table = "getter" =>
              match_getters(last'.query, getters', properties') = last'.res
        /\ (last'.table = "setter" /\ last'.idx > 0) =>
              /\ last'.idx = First(Parsing(last'.query))
              /\ \A n \in DOMAIN properties :
                    n # setters[last'.idx].name => properties'[n] = properties[n]
    ]_vars

\* a setter match wrote a new value to its property, beside another
\* property that holds a written value
C13_Witness ==
    /\ last.op = "match"
    /\ last.wrote
    /\ properties[setters[last.idx].name] # last.pre[setters[last.idx].name]
    /\ \E n \in DOMAIN properties :
          /\ n # setters[last.idx].name
          /\ properties[n] = last.pre[n]
          /\ properties[n].value = IntV(1)

\* the byte query q is defined as a dialogue, and with no other response
\* than the sentinel
SentinelDialogue(q) ==
    /\ \E d \in DupDialogueDefs : to_bytes(d.query).b = q
    /\ \A d \in DupDialogueDefs : to_bytes(d.query).b = q => d.response = NoResponse
\* setter i is defined with no other response than the sentinel
SentinelSetter(i) ==
    \A d \in DupPropDefs :
        (d.hasSetter /\ d.name = setters[i].name /\ Parser(d.setter.query.b) = setters[i].parser)
            => d.setter.response = NoResponse

\* C14: a match on a dialogue defined with the sentinel, and a successful
\* write through a setter defined with the sentinel, return the sentinel; a
\* returned sentinel or empty byte string means a table matched, None that
\* none did, and a dialogue defined with the empty text returns the empty
\* byte string
C14_SentinelIsItsOwnOutcome ==
    last.op = "match" =>
        /\ (last.query \in DOMAIN dialogues /\ SentinelDialogue(last.query)) =>
              /\ last.res = NoResponse
              /\ last.res # Bytes(<<>>)
              /\ last.res # None
        /\ (SetterDecided /\ last.wrote /\ SentinelSetter(last.idx)) =>
              /\ last.res = NoResponse
              /\ last.res # Bytes(<<>>)
              /\ last.res # None
        /\ last.res = NoResponse => last.table \in {"dialogue", "setter"}
        /\ (last.table = "dialogue" /\ last.res = NoResponse) =>
              \E d \in DupDialogueDefs :
                  to_bytes(d.query).b = last.query /\ d.response = NoResponse
        /\ last.res = Bytes(<<>>) =>
              /\ last.table = "dialogue"
              /\ \E d \in DupDialogueDefs :
                    to_bytes(d.query).b = last.query /\ d.response = Text(<<>>)
        /\ last.res = None <=> last.table = "none"

\* a match on the dialogue defined with the sentinel, on a component where
\* the same query would otherwise have gone unmatched
C14_Witness ==
    /\ last.op = "match"
    /\ last.table = "dialogue"
    /\ SentinelDialogue(last.query)
    /\ last.res = NoResponse
    /\ getters # EmptyDict
    /\ setters # <<>>

\* a successful write through the setter defined with the sentinel
C14_WitnessSetter ==
    /\ SetterDecided
    /\ last.wrote
    /\ SentinelSetter(last.idx)
    /\ last.res = NoResponse

\* the text t with its escapes \r and \n expanded
Expand(t) == Replace(Replace(t, "\\", "r", "CR"), "\\", "n", "LF")
\* the bytes b hold the two characters of an escape
HasEscape(b) == \E i \in 1..(Len(b) - 1) : b[i] = "\\" /\ b[i + 1] \in {"r", "n"}
\* setter i is the setter of the definition d
SetterOf(i, d) ==
    /\ d.hasSetter
    /\ setters[i].name = d.name
    /\ setters[i].parser = Parser(d.setter.query.b)

\* C15: a dialogue, a getter and a setter defined with \r or \n match the
\* query that holds the control byte, and the response they return holds
\* the control byte and no escape
C15_EscapesExpandedEverywhere ==
    last.op = "match" =>
        /\ \A d \in EscDialogueDefs :
              (last.query = Encode(Expand(d.query.b)) /\ last.query \in DOMAIN dialogues) =>
                  /\ last.table = "dialogue"
                  /\ last.res = Bytes(Encode(Expand(d.response.b)))
        /\ \A d \in EscPropDefs :
              (/\ d.hasGetter
               /\ last.query = Encode(Expand(d.getter.query.b))
               /\ last.query \notin DOMAIN dialogues
               /\ last.query \in DOMAIN getters
               /\ getters[last.query].response = d.getter.response.b) =>
                  /\ last.table = "getter"
                  /\ ~HasEscape(last.res.b)
        /\ \A d \in EscPropDefs :
              (/\ ReachedSetters
               /\ setters # <<>>
               /\ SetterOf(1, d)
               /\ Decode(last.query).ok
               /\ Parse(Parser(Expand(d.setter.query.b)), Decode(last.query).v.s).ok) =>
                  /\ last.table = "setter"
                  /\ last.idx = 1
                  /\ last.res \in {Bytes(Encode(Expand(d.setter.response.b))),
                                   Bytes(Encode(Expand(d.setter.error.b))),
                                   error_response("command_error")}

\* the parts of it that hold: dialogue queries, dialogue responses, getter
\* queries and setter responses are expanded
C15_ExpandedByToBytes ==
    last.op = "match" =>
        /\ \A d \in EscDialogueDefs :
              (last.query = Encode(Expand(d.query.b)) /\ last.query \in DOMAIN dialogues) =>
                  /\ last.table = "dialogue"
                  /\ last.res = Bytes(Encode(Expand(d.response.b)))
        /\ \A d \in EscPropDefs :
              (/\ d.hasGetter
               /\ last.query = Encode(Expand(d.getter.query.b))
               /\ last.query \notin DOMAIN dialogues
               /\ last.query \in DOMAIN getters) => last.table = "getter"
        /\ last.table = "setter" => ~HasEscape(last.res.b)

\* C16: whatever the interleaving of the calls to two components, each
\* component's tables and property values are those its own calls alone
\* produce, each response is the one the call gets when the component runs
\* alone, and a call to one component changes nothing of the other
C16_ComponentsIndependent ==
    /\ [](/\ \A c \in Instances : comps[c] = solo[c]
          /\ reply.res = reply.alone)
    /\ [][\A c \in Instances : reply'.c # c => comps'[c] = comps[c]]_vars

\* both components hold a property of the same name, with different written
\* values, after a match on the second
C16_Witness ==
    /\ reply.c = 2
    /\ reply.query # <<>>
    /\ "f" \in DOMAIN comps[1].properties
    /\ "f" \in DOMAIN comps[2].properties
    /\ comps[1].properties["f"].value = FloatV(0)
    /\ comps[2].properties["f"].value = FloatV(10)

\* C17: an add_property that raises leaves the properties, the getters and
\* the setters as they were before the call
C17_AddPropertyAllOrNothing ==
    [][(last'.op = "add_property" /\ last'.res.kind = "raise") =>
          /\ properties' = properties
          /\ getters' = getters
          /\ setters' = setters
    ]_vars

\* the same, for the calls that fail in the construction of the Property
C17_FailedConstructionRegistersNothing ==
    [][(/\ last'.op = "add_property"
        /\ last'.res.kind = "raise"
        /\ \E d \in DupPropDefs :
              d.name = last'.name /\ d.default_value = last'.raw /\ BadDefault(d)) =>
          /\ properties' = properties
          /\ getters' = getters
          /\ setters' = setters
    ]_vars

\* the getter and the setter entries add_property makes for the definition d
GetterEntry(d) == [name |-> d.name, response |-> d.getter.response.b]
SetterEntry(d) ==
    [name |-> d.name, parser |-> Parser(d.setter.query.b),
     response |-> to_bytes(d.setter.response), error_response |-> to_bytes(d.setter.error)]

\* a step that registers the dialogue d: its response is the entry of its
\* query, whatever was there, and the other entries stay
DialogueReplaces(d) ==
    (last'.op = "add_dialogue" /\ AddDialogue(d)) =>
        /\ DOMAIN dialogues' = DOMAIN dialogues \cup {Encode(Expand(d.query.b))}
        /\ dialogues'[Encode(Expand(d.query.b))] = to_bytes(d.response)
        /\ \A q \in DOMAIN dialogues :
              q # Encode(Expand(d.query.b)) => dialogues'[q] = dialogues[q]

\* a step that adds the property definition d and returns: the new Property
\* stands under its name, and the getters of that name read it; the getter
\* of d is the entry of its query, whatever was there; the setter of d is
\* appended behind the setters there were, which stay in place
PropertyReplaces(d) ==
    (/\ last'.op = "add_property"
     /\ last'.res = None
     /\ last'.name = d.name
     /\ last'.raw = d.default_value
     /\ AddProperty(d)) =>
        /\ properties'[d.name] = Property(d.name, d.default_value, d.specs).p
        /\ \A n \in DOMAIN properties : n # d.name => properties'[n] = properties[n]
        /\ d.hasGetter => getters'[Encode(Expand(d.getter.query.b))] = GetterEntry(d)
        /\ \A q \in DOMAIN getters :
              (d.hasGetter /\ q = Encode(Expand(d.getter.query.b))) \/ getters'[q] = getters[q]
        /\ \A q \in DOMAIN getters' :
              getters'[q].name = d.name =>
                  match_getters(q, getters', properties') =
                      format_response(getters'[q].response,
                                      get_value(Property(d.name, d.default_value, d.specs).p))
        /\ setters' = IF d.hasSetter THEN Append(setters, SetterEntry(d)) ELSE setters

\* a match that a setter took was taken by the first setter of its pattern:
\* no setter registered before it has the same pattern
FirstOfPattern ==
    (last.op = "match" /\ last.table = "setter" /\ last.idx > 0) =>
        /\ \A j \in 1..(last.idx - 1) : setters[j].parser # setters[last.idx].parser
        /\ last.res.kind # "raise" => last.res = SetterResponse(last.idx, last.wrote)

\* C18: registering a dialogue query or a getter query again replaces the
\* entry, adding a property name again replaces the property its getters
\* and setters operate on, and registering a setter pattern again leaves
\* the earlier setter in front: the earlier one answers every match
C18_DuplicatesResolveByTableKind ==
    /\ [][/\ \A d \in DupDialogueDefs : DialogueReplaces(d)
          /\ \A d \in DupPropDefs : PropertyReplaces(d)]_vars
    /\ []FirstOfPattern

\* two setters with one pattern and different responses: the match was
\* answered by the first, and the second would have accepted the value too
C18_Witness ==
    /\ last.op = "match"
    /\ last.table = "setter"
    /\ last.idx = 1
    /\ Len(setters) = 2
    /\ setters[1].parser = setters[2].parser
    /\ setters[1].response # setters[2].response
    /\ last.res = setters[1].response
    /\ set_value(last.pre[setters[2].name], last.value).ok

\* a getter query registered for freq and then again for state, answered
\* with the value of state
C18_WitnessGetter ==
    /\ last.op = "match"
    /\ last.table = "getter"
    /\ getters[last.query].name = "s"
    /\ Len(setters) = 2
    /\ setters[1].name = "f"
    /\ setters[2] = [name |-> "s", parser |-> setters[1].parser,
                     response |-> Bytes(<<"K">>), error_response |-> Bytes(<<"E">>)]
    /\ last.res = Bytes(<<"1">>)

\* C19: every query that reaches _match_setters, in whatever state of the
\* component, ends with bytes, the sentinel or None: the scan raises nothing
C19_SetterScanTotal ==
    ReachedSetters =>
        /\ last.res = match_setters(last.query, setters, last.pre).res
        /\ last.res.kind \in {"bytes", "NoResponse", "None"}

\* the same for the queries that decode as UTF-8, called in every state
C19_DecodableScanTotal ==
    \A q \in EscQueries :
        Decode(q).ok =>
            match_setters(q, setters, properties).res.kind \in {"bytes", "NoResponse", "None"}

=============================================================================
